---- MODULE Spec2Model ----
(***************************************************************************)
(* A model of src/encrypt-password.ts: the module-load validation of the   *)
(* SALT environment variable and the function encryptPassword, a           *)
(* validating wrapper around the pbkdf primitive of bcrypt-pbkdf.          *)
(*                                                                         *)
(* JavaScript values are records [t, n, frac, s]: t is the typeof tag, a   *)
(* number is n (frac = FALSE) or n + 1/2 (frac = TRUE), a string is the    *)
(* sequence s of its UTF-16 code units.  Buffers live in a heap, a         *)
(* sequence of byte sequences; a Buffer reference is an index of the heap. *)
(***************************************************************************)
EXTENDS Integers, Sequences, FiniteSets, TLC

VARIABLES envSALT, module, startupSALT, heap, held, scrubbed, log, input

vars == <<envSALT, module, startupSALT, heap, held, scrubbed, log, input>>

(* ------------------------------ bounds -------------------------------- *)

\* calls of encryptPassword in one behaviour
MaxCalls == 2
\* longest password, in code units
MaxPwLen == 2
\* largest small integer tried for numberOfRounds and outputLength
MaxNum == 2
\* how far above minSaltLengh the salts tried go
MaxSaltOver == 1

(* --------------------------- JavaScript values ------------------------ *)

Undefined == [t |-> "undefined", n |-> 0, frac |-> FALSE, s |-> <<>>]

Num(k) == [t |-> "number", n |-> k, frac |-> FALSE, s |-> <<>>]

\* the number k + 1/2
NumHalf(k) == [t |-> "number", n |-> k, frac |-> TRUE, s |-> <<>>]

Str(u) == [t |-> "string", n |-> 0, frac |-> FALSE, s |-> u]

typeof(v) == v.t

\* Number.isInteger(v)
NumberIsInteger(v) == v.t = "number" /\ ~v.frac

\* v < k for a number v and an integer k  (n + 1/2 < k  iff  n < k)
NumberLess(v, k) == v.n < k

\* a destructuring default: it applies exactly when the value is undefined
Default(v, d) == IF v = Undefined THEN d ELSE v

\* the string of k copies of the code unit c
Rep(c, k) == [i \in 1..k |-> c]

(* ------------------------------ Buffers ------------------------------- *)

\* UTF-8 encoding of one code unit of the Basic Multilingual Plane
\* (no surrogates are among the inputs)
Utf8(c) ==
    IF c < 128 THEN <<c>>
    ELSE IF c < 2048 THEN <<192 + (c \div 64), 128 + (c % 64)>>
    ELSE <<224 + (c \div 4096), 128 + ((c \div 64) % 64), 128 + (c % 64)>>

RECURSIVE Utf8String(_)
Utf8String(u) == IF u = <<>> THEN <<>> ELSE Utf8(Head(u)) \o Utf8String(Tail(u))

Zeros(k) == [i \in 1..k |-> 0]

\* variant: a buffer of the same size allocated earlier is handed out again
BufferAllocReuse(h, size) ==
    IF \E i \in 1..Len(h) : Len(h[i]) = size
    THEN LET i == CHOOSE j \in 1..Len(h) : Len(h[j]) = size
         IN  [heap |-> [h EXCEPT ![i] = Zeros(size)], ref |-> i]
    ELSE [heap |-> Append(h, Zeros(size)), ref |-> Len(h) + 1]

\* Buffer.alloc(size): a new zero-filled buffer; ref is its reference
BufferAlloc(h, size) == [heap |-> Append(h, Zeros(size)), ref |-> Len(h) + 1]

\* Buffer.from(string): a new buffer holding the string's UTF-8 bytes
BufferFrom(h, u) == [heap |-> Append(h, Utf8String(u)), ref |-> Len(h) + 1]

(* ------------------------- the pbkdf primitive ------------------------ *)

RECURSIVE Sum(_)
Sum(b) == IF b = <<>> THEN 0 ELSE Head(b) + Sum(Tail(b))

\* Stand-in for the SHA-512 / bcrypt hashing of pbkdf: byte d of the key, a
\* fixed function of the password bytes, the salt bytes, the round count and
\* the position.  Only its being a function of these four is relied upon.
Prf(pass, salt, rounds, d) ==
    (31 * Sum(pass) + 17 * Sum(salt) + 7 * Len(pass) + 5 * Len(salt)
       + 13 * rounds + 3 * d + 1) % 256

\* pbkdf(pass, passlen, salt, saltlen, key, keylen, rounds) of bcrypt-pbkdf:
\* it refuses its arguments with -1 and leaves key alone, or fills key[0..keylen)
\* and returns 0.  key is the contents of the output buffer.
pbkdf(pass, passlen, salt, saltlen, key, keylen, rounds) ==
    IF \/ rounds < 1
       \/ passlen = 0 \/ saltlen = 0 \/ keylen = 0
       \/ keylen > 32 * 32 \/ saltlen > 2 ^ 20
    THEN [ret |-> -1, key |-> key]
    ELSE [ret |-> 0,
          key |-> [d \in 1..Len(key) |->
                     IF d <= keylen THEN Prf(pass, salt, rounds, d) ELSE key[d]]]

(* --------------------------- module load ------------------------------ *)

minSaltLengh == 8

\* variant: an invalid SALT is ignored
validateSaltVariableLenient(SALT) == TRUE

\* validateSaltVariable(SALT): TRUE when it returns, FALSE when it throws
validateSaltVariable(SALT) ==
    IF SALT = Undefined THEN TRUE
    ELSE IF typeof(SALT) # "string" \/ Len(SALT.s) < minSaltLengh THEN FALSE
    ELSE TRUE

(* --------------------------- encryptPassword -------------------------- *)

\* the messages of the TypeErrors thrown (without their backquotes)
NoError == "none"
ErrPassword == "Argument password must be a string."
ErrRounds == "If specified, option numberOfRounds must be a positive integer."
ErrOutputLength == "If specified, option outputLength must be a positive integer."
ErrSaltType == "Argument salt must be a string."
ErrSaltLength == "Argument salt must be at least minSaltLengh characters long."

\* variant: env.SALT takes precedence over the option
ResolveSaltEnvFirst(option, SALT) == IF SALT # Undefined THEN SALT ELSE option

\* the parameter default  salt = env.SALT
ResolveSalt(option, SALT) == Default(option, SALT)

\* variant: numberOfRounds is not checked
ValidateNoRounds(password, numberOfRounds, outputLength, salt) ==
    IF typeof(password) # "string" THEN ErrPassword
    ELSE IF ~NumberIsInteger(outputLength) \/ NumberLess(outputLength, 1)
    THEN ErrOutputLength
    ELSE IF typeof(salt) # "string" THEN ErrSaltType
    ELSE IF Len(salt.s) < minSaltLengh THEN ErrSaltLength
    ELSE NoError

\* variant: the salt must be longer than minSaltLengh
ValidateSaltOffByOne(password, numberOfRounds, outputLength, salt) ==
    IF typeof(password) # "string" THEN ErrPassword
    ELSE IF ~NumberIsInteger(numberOfRounds) \/ NumberLess(numberOfRounds, 1)
    THEN ErrRounds
    ELSE IF ~NumberIsInteger(outputLength) \/ NumberLess(outputLength, 1)
    THEN ErrOutputLength
    ELSE IF typeof(salt) # "string" THEN ErrSaltType
    ELSE IF Len(salt.s) <= minSaltLengh THEN ErrSaltLength
    ELSE NoError

\* the checks of encryptPassword in their order: the message of the first
\* TypeError thrown, or NoError
Validate(password, numberOfRounds, outputLength, salt) ==
    IF typeof(password) # "string" THEN ErrPassword
    ELSE IF ~NumberIsInteger(numberOfRounds) \/ NumberLess(numberOfRounds, 1)
    THEN ErrRounds
    ELSE IF ~NumberIsInteger(outputLength) \/ NumberLess(outputLength, 1)
    THEN ErrOutputLength
    ELSE IF typeof(salt) # "string" THEN ErrSaltType
    ELSE IF Len(salt.s) < minSaltLengh THEN ErrSaltLength
    ELSE NoError

\* the outcome of a call: kind is "throw" or "return", ref the buffer
\* returned, heap the heap the call leaves, calls the invocations of pbkdf
Throw(h, e) == [kind |-> "throw", error |-> e, ref |-> 0, heap |-> h, calls |-> <<>>]

\* the body of encryptPassword after its checks
DeriveWith(h, password, numberOfRounds, outputLength, salt, size) ==
    LET buffer == BufferFrom(h, password.s)
        bufferLength == Len(buffer.heap[buffer.ref])
        saltBuffer == BufferFrom(buffer.heap, salt.s)
        saltBufferLength == Len(saltBuffer.heap[saltBuffer.ref])
        outputBuffer == BufferAlloc(saltBuffer.heap, size)
        h3 == outputBuffer.heap
        r == pbkdf(h3[buffer.ref], bufferLength, h3[saltBuffer.ref], saltBufferLength,
                   h3[outputBuffer.ref], outputLength.n, numberOfRounds.n)
    IN  [kind |-> "return", error |-> NoError, ref |-> outputBuffer.ref,
         heap |-> [h3 EXCEPT ![outputBuffer.ref] = r.key],
         calls |-> <<[pass |-> h3[buffer.ref], salt |-> h3[saltBuffer.ref],
                      passRef |-> buffer.ref, saltRef |-> saltBuffer.ref,
                      key |-> outputBuffer.ref, keylen |-> outputLength.n,
                      rounds |-> numberOfRounds.n, ret |-> r.ret]>>]

\* variant: the output buffer is allocated with the password's byte length
DeriveAllocPasswordLength(h, password, numberOfRounds, outputLength, salt) ==
    DeriveWith(h, password, numberOfRounds, outputLength, salt, Len(Utf8String(password.s)))

\* lines 79-98, the output buffer allocated with outputLength
Derive(h, password, numberOfRounds, outputLength, salt) ==
    DeriveWith(h, password, numberOfRounds, outputLength, salt, outputLength.n)

\* variant: the salt is checked only after the buffers are made and pbkdf ran
encryptPasswordLateSaltCheck(h, password, options, SALT) ==
    LET numberOfRounds == Default(options.numberOfRounds, Num(1))
        outputLength == Default(options.outputLength, Num(32))
        salt == ResolveSalt(options.salt, SALT)
        e == Validate(password, numberOfRounds, outputLength, Str(Rep(97, minSaltLengh)))
        f == Validate(password, numberOfRounds, outputLength, salt)
    IN  IF e # NoError THEN Throw(h, e)
        ELSE IF f # NoError
        THEN [Derive(h, password, numberOfRounds, outputLength, Str(<<>>))
                EXCEPT !.kind = "throw", !.error = f, !.ref = 0]
        ELSE Derive(h, password, numberOfRounds, outputLength, salt)

\* encryptPassword(password, {numberOfRounds, outputLength, salt}) called with
\* the heap h and env.SALT = SALT; an option left out is Undefined
encryptPassword(h, password, options, SALT) ==
    LET numberOfRounds == Default(options.numberOfRounds, Num(1))
        outputLength == Default(options.outputLength, Num(32))
        salt == ResolveSalt(options.salt, SALT)
        e == Validate(password, numberOfRounds, outputLength, salt)
    IN  IF e # NoError THEN Throw(h, e)
        ELSE Derive(h, password, numberOfRounds, outputLength, salt)

(* ------------------------------ inputs -------------------------------- *)

\* code units tried: "a" (one byte in UTF-8) and e-acute (two bytes)
Chars == {97, 233}

Strings(lens) == {Str(Rep(c, k)) : c \in Chars, k \in lens}

\* string lengths around the salt minimum, and the length at which a string
\* of two-byte characters has minSaltLengh bytes
SaltLens == {0, minSaltLengh \div 2} \cup ((minSaltLengh - 1)..(minSaltLengh + MaxSaltOver))

\* numbers and non-numbers given for numberOfRounds and outputLength
Numbers ==
    {Undefined, Str(<<49>>)} \cup {Num(k) : k \in (-1)..MaxNum} \cup {NumHalf(k) : k \in 0..1}

\* what env.SALT can be: unset, or a string
EnvValues == {Undefined} \cup Strings((minSaltLengh - 1)..minSaltLengh)

Args(passwords, rounds, lengths, salts) ==
    {[password |-> p, options |-> [numberOfRounds |-> r, outputLength |-> l, salt |-> s]] :
        p \in passwords, r \in rounds, l \in lengths, s \in salts}

\* the arguments tried for a single call
WideArgs ==
    Args(Strings(0..MaxPwLen) \cup {Num(MaxNum)},
         Numbers,
         Numbers \cup {Num(32 * 32), Num(32 * 32 + 1)},
         {Undefined, Num(12345678)} \cup Strings(SaltLens))

\* the arguments tried in sequences of calls
SeqArgs ==
    Args({Str(<<97, 233>>), Num(MaxNum)},
         {Undefined},
         {Undefined, Num(MaxNum)},
         {Undefined} \cup {Str(Rep(97, k)) : k \in (minSaltLengh - 1)..minSaltLengh})

NoInput == [password |-> Undefined,
            options |-> [numberOfRounds |-> Undefined, outputLength |-> Undefined,
                         salt |-> Undefined]]

(* --------------------------- the state machine ------------------------ *)

\* envSALT      env.SALT
\* module       "unloaded", then "ready" or "failed" once the module body ran
\* startupSALT  the value validateSaltVariable was applied to
\* heap         the Buffers allocated so far
\* held         the references encryptPassword returned, in order
\* scrubbed     the positions of held whose caller has run fill(0)
\* log          one record per call of encryptPassword: its arguments, its
\*              outcome, the bytes of the buffer as returned, the position
\*              of the returned reference in held, the invocations of
\*              pbkdf, and the number of Buffers the call allocated
\* input        the arguments of the single call of SpecCall

InitCommon ==
    /\ envSALT \in EnvValues
    /\ module = "unloaded"
    /\ startupSALT = Undefined
    /\ heap = <<>>
    /\ held = <<>>
    /\ scrubbed = {}
    /\ log = <<>>

Init == InitCommon /\ input = NoInput

InitCall == InitCommon /\ input \in WideArgs

\* the module body: validateSaltVariable(env.SALT); a throw fails the import
Load ==
    /\ module = "unloaded"
    /\ module' = IF validateSaltVariable(envSALT) THEN "ready" ELSE "failed"
    /\ startupSALT' = envSALT
    /\ UNCHANGED <<envSALT, heap, held, scrubbed, log, input>>

\* a call encryptPassword(a.password, a.options)
Call(a) ==
    /\ module = "ready"
    /\ Len(log) < MaxCalls
    /\ LET r == encryptPassword(heap, a.password, a.options, envSALT)
       IN  /\ heap' = r.heap
           /\ held' = IF r.kind = "return" THEN Append(held, r.ref) ELSE held
           /\ log' = Append(log,
                 [password |-> a.password, options |-> a.options,
                  kind |-> r.kind, error |-> r.error, ref |-> r.ref,
                  handle |-> IF r.kind = "return" THEN Len(held) + 1 ELSE 0,
                  bytes |-> IF r.kind = "return" THEN r.heap[r.ref] ELSE <<>>,
                  calls |-> r.calls,
                  allocated |-> Len(r.heap) - Len(heap)])
    /\ UNCHANGED <<envSALT, module, startupSALT, scrubbed, input>>

CallAny == \E a \in SeqArgs : Call(a)

CallInput == log = <<>> /\ Call(input)

\* the rest of the process assigns or deletes env.SALT
SetEnv ==
    /\ module = "ready"
    /\ \E v \in EnvValues : v # envSALT /\ envSALT' = v
    /\ UNCHANGED <<module, startupSALT, heap, held, scrubbed, log, input>>

\* a caller clears a buffer it was given: buffer.fill(0)
Fill ==
    \E k \in 1..Len(held) :
        /\ k \notin scrubbed
        /\ heap' = [heap EXCEPT ![held[k]] = Zeros(Len(heap[held[k]]))]
        /\ scrubbed' = scrubbed \cup {k}
        /\ UNCHANGED <<envSALT, module, startupSALT, held, log, input>>

Next == Load \/ CallAny \/ SetEnv \/ Fill

Spec == Init /\ [][Next]_vars

NextCall == Load \/ CallInput

SpecCall == InitCall /\ [][NextCall]_vars

(* ------------------------------ claims -------------------------------- *)

Entries == {log[i] : i \in 1..Len(log)}

PositiveInteger(v) == v.t = "number" /\ ~v.frac /\ v.n >= 1

PasswordOk(e) == e.password.t = "string"

RoundsOk(e) ==
    e.options.numberOfRounds = Undefined \/ PositiveInteger(e.options.numberOfRounds)

LengthOk(e) ==
    e.options.outputLength = Undefined \/ PositiveInteger(e.options.outputLength)

RequestedLength(e) ==
    IF e.options.outputLength = Undefined THEN 32 ELSE e.options.outputLength.n

\* C1: every call that returns normally returns a buffer of the requested
\* length that pbkdf has filled (pbkdf was invoked once and returned 0).
C1_ReturnedBufferIsFilled ==
    \A e \in Entries :
        e.kind = "return" =>
            /\ Len(e.bytes) = RequestedLength(e)
            /\ Len(e.calls) = 1
            /\ e.calls[1].ret = 0

\* C2: a call that ends in a validation error has not invoked pbkdf and has
\* allocated no buffer.
C2_ValidationBeforeCrypto ==
    \A e \in Entries :
        e.kind = "throw" => e.calls = <<>> /\ e.allocated = 0 /\ e.ref = 0

C2_Witness ==
    \E e \in Entries :
        /\ e.kind = "throw" /\ e.error = ErrSaltLength
        /\ e.options.salt.t = "string" /\ Len(e.options.salt.s) = minSaltLengh - 1

\* C3 as stated: with the other arguments valid, a salt option of fewer than
\* 8 bytes is refused with the salt-length error and one of exactly 8 bytes
\* is accepted.
C3_SaltFloorInBytes ==
    \A e \in Entries :
        (PasswordOk(e) /\ RoundsOk(e) /\ LengthOk(e) /\ e.options.salt.t = "string") =>
            /\ Len(Utf8String(e.options.salt.s)) < minSaltLengh =>
                   e.kind = "throw" /\ e.error = ErrSaltLength
            /\ Len(Utf8String(e.options.salt.s)) = minSaltLengh => e.kind = "return"

\* C3 amended: with the other arguments valid, a salt option of fewer than 8
\* characters (UTF-16 code units) is refused with the salt-length error and
\* one of exactly 8 characters is accepted, whatever its length in bytes.
C3_SaltFloorInCodeUnits ==
    \A e \in Entries :
        (PasswordOk(e) /\ RoundsOk(e) /\ LengthOk(e) /\ e.options.salt.t = "string") =>
            /\ Len(e.options.salt.s) < minSaltLengh =>
                   e.kind = "throw" /\ e.error = ErrSaltLength
            /\ Len(e.options.salt.s) = minSaltLengh => e.kind = "return"

C3_Witness ==
    \E e \in Entries :
        /\ e.kind = "return"
        /\ Len(e.options.salt.s) = minSaltLengh
        /\ Len(Utf8String(e.options.salt.s)) = 2 * minSaltLengh

\* C4: the buffer of a successful call has exactly outputLength bytes, 32
\* when outputLength is omitted, whatever numberOfRounds is.
C4_OutputLength ==
    \A e \in Entries :
        e.kind = "return" =>
            /\ Len(e.bytes) = RequestedLength(e)
            /\ Len(heap[e.ref]) = RequestedLength(e)

C4_Witness ==
    \E e \in Entries :
        /\ e.kind = "return"
        /\ e.options.outputLength = Undefined /\ Len(e.bytes) = 32
        /\ e.options.numberOfRounds = Num(MaxNum)

\* C5: a call with a non-string password, or a numberOfRounds or outputLength
\* that is not an integer >= 1, throws the error of that argument (of the
\* first such argument in the order password, numberOfRounds, outputLength),
\* the errors being distinct from each other and from the salt errors, and
\* returns no buffer: nothing is derived with a default or truncated value.
C5_TypedValidationErrors ==
    /\ Cardinality({ErrPassword, ErrRounds, ErrOutputLength, ErrSaltType, ErrSaltLength,
                    NoError}) = 6
    /\ \A e \in Entries :
        /\ ~PasswordOk(e) => e.kind = "throw" /\ e.error = ErrPassword
        /\ (PasswordOk(e) /\ ~RoundsOk(e)) => e.kind = "throw" /\ e.error = ErrRounds
        /\ (PasswordOk(e) /\ RoundsOk(e) /\ ~LengthOk(e)) =>
               e.kind = "throw" /\ e.error = ErrOutputLength
        /\ (~PasswordOk(e) \/ ~RoundsOk(e) \/ ~LengthOk(e)) =>
               e.ref = 0 /\ e.bytes = <<>> /\ e.calls = <<>>

C5_Witness ==
    \E e \in Entries :
        /\ PasswordOk(e)
        /\ e.options.numberOfRounds = NumHalf(1)
        /\ e.options.outputLength = Num(0)
        /\ e.kind = "throw" /\ e.error = ErrRounds

\* C6: in every call, the salt given to pbkdf is the salt option when there
\* is one, whatever env.SALT is, and env.SALT otherwise; and when the value so
\* resolved is no string of at least 8 characters (no option and SALT unset
\* included) the call throws and derives nothing.
C6_SaltResolution ==
    [][Len(log') = Len(log) + 1 =>
         LET e == log'[Len(log')]
             resolved == IF e.options.salt # Undefined THEN e.options.salt ELSE envSALT
             valid == resolved.t = "string" /\ Len(resolved.s) >= minSaltLengh
         IN  /\ (PasswordOk(e) /\ RoundsOk(e) /\ LengthOk(e) /\ valid) =>
                    /\ e.kind = "return"
                    /\ Len(e.calls) = 1
                    /\ e.calls[1].salt = Utf8String(resolved.s)
             /\ ~valid => e.kind = "throw" /\ e.calls = <<>> /\ e.allocated = 0
       ]_vars

C6_Witness ==
    \E e \in Entries :
        /\ e.options.salt # Undefined /\ envSALT # Undefined
        /\ e.options.salt # envSALT
        /\ Len(e.calls) = 1
        /\ e.calls[1].salt = Utf8String(e.options.salt.s)
        /\ Len(log) = 1

\* C7: once the module body has run, the load has failed exactly when SALT
\* was set and shorter than 8 characters, and succeeded when it was unset or
\* valid; after a failed load encryptPassword is never called.
C7_StartupValidation ==
    /\ module # "unloaded" =>
          (module = "failed" <=>
              (startupSALT # Undefined /\ Len(startupSALT.s) < minSaltLengh))
    /\ module = "unloaded" => (startupSALT = Undefined /\ log = <<>>)
    /\ module = "failed" => (log = <<>> /\ heap = <<>> /\ ~ENABLED CallAny)

C7_Witness ==
    /\ module = "failed"
    /\ startupSALT.t = "string" /\ Len(startupSALT.s) = minSaltLengh - 1

\* C8: any two calls with identical arguments have the same outcome: both
\* return byte-identical buffers, or both throw the same error.
C8_Determinism ==
    \A e, f \in Entries :
        (e.password = f.password /\ e.options = f.options) =>
            (e.kind = f.kind /\ e.error = f.error /\ e.bytes = f.bytes)

\* C9: the buffers returned are pairwise distinct and distinct from the
\* password and salt buffers of every call, and a buffer a caller has not
\* cleared holds the bytes it was returned with, whatever other callers
\* cleared and whatever calls came later.
C9_FreshUnsharedBuffers ==
    /\ \A i, j \in 1..Len(held) : i # j => held[i] # held[j]
    /\ \A e, f \in Entries :
          (e.kind = "return" /\ f.kind = "return") =>
              e.ref \notin {f.calls[1].passRef, f.calls[1].saltRef}
    /\ \A e \in Entries :
          e.kind = "return" =>
              /\ held[e.handle] = e.ref
              /\ heap[e.ref] = IF e.handle \in scrubbed THEN Zeros(Len(e.bytes)) ELSE e.bytes

C9_Witness ==
    /\ Len(held) = 2
    /\ scrubbed = {1}
    /\ \E e \in Entries :
          e.handle = 2 /\ heap[e.ref] = e.bytes /\ e.bytes # Zeros(Len(e.bytes))
    /\ \E e \in Entries : e.handle = 1 /\ Len(e.bytes) = Len(heap[held[2]])

\* C10: every call that omits the salt option uses the value of SALT that
\* was validated at startup: it throws when that was unset, and otherwise
\* gives pbkdf the bytes of that value.
C10_DefaultSaltFixedAtStartup ==
    \A e \in Entries :
        e.options.salt = Undefined =>
            /\ startupSALT = Undefined => e.kind = "throw"
            /\ e.calls # <<>> =>
                   (startupSALT # Undefined /\ e.calls[1].salt = Utf8String(startupSALT.s))

====
